---------------------------- MODULE Spec2Model ----------------------------
(***************************************************************************)
(* Model of the two Google-Docs triage scripts:                            *)
(*   gduntitlerename.py  rename-or-trash workflow                          *)
(*   sortGD.py           categorize-and-move workflow                      *)
(* Python strings are sequences of one-character strings, Python dicts are *)
(* functions from string keys (records); the empty dict is <<>>.           *)
(***************************************************************************)
EXTENDS Naturals, Sequences, FiniteSets

VARIABLES
  workflow,     \* which script runs: "rename" (gduntitlerename) or "sort" (sortGD)
  pc,           \* position of main()
  name,         \* remote store: document id -> title
  trashed,      \* remote store: document id -> trashed flag
  parents,      \* remote store: document id -> set of parent folder ids
  folders,      \* remote store: folder records [id, name], in the store's listing order
  docs,         \* list_google_docs / main: the listing fetched so far ([id, name] records)
  page_token,   \* list_google_docs: the nextPageToken of the last page, or None
  idx,          \* main: 1-based position of the for loop in docs
  content,      \* the document returned by the content fetch for the current document
  first_line,   \* gduntitlerename.main: what get_first_line returned
  validated_title, \* gduntitlerename.main: what validate_title returned
  categories,   \* sortGD.CATEGORIES: sequence of <<category, folder name>> pairs
  todo,         \* sortGD.main: items of CATEGORIES the folder loop has not reached
  resolving,    \* get_or_create_folder: the call in progress, [key, name, last]
  folder_ids,   \* sortGD.main: category -> FolderId
  response,     \* categorize_document: what the chat completion call did
  category,     \* sortGD.main: category of the current document
  target,       \* move_document_to_folder: its folder_id argument
  previous_parents, \* move_document_to_folder: the parents read by files().get
  log,          \* observer: per document, the calls issued for it and their effect
  resolutions,  \* observer: the get_or_create_folder calls of the run, in order
  call,         \* a direct call validate_title(title, max_length) and its results
  run,          \* 0: the script is run once, remote calls may fail; 1: the first of
                \* two failure-free runs; 2: the re-run on the store the first left
  left,         \* observer: the store's documents as the first run left them
  seen          \* the remote side of the first of two runs: per document, the
                \* content fetched and the classifier's answer

vars == <<workflow, pc, name, trashed, parents, folders, docs, page_token, idx, content,
          first_line, validated_title, categories, todo, resolving, folder_ids,
          response, category, target, previous_parents, log, resolutions, call, run, left, seen>>

-----------------------------------------------------------------------------
(* Strings *)

\* the characters str.strip() removes. A character that has no escape in a
\* string here is written by its code point, as one character of the text:
\* "U+000B" is the vertical tab, "U+00A0" the no-break space
Whitespace ==
  {" ", "\t", "\n", "\r", "\f", "U+000B", "U+001C", "U+001D", "U+001E", "U+001F",
   "U+0085", "U+00A0", "U+1680", "U+2000", "U+2001", "U+2002", "U+2003", "U+2004",
   "U+2005", "U+2006", "U+2007", "U+2008", "U+2009", "U+200A", "U+2028", "U+2029",
   "U+202F", "U+205F", "U+3000"}

Upper == <<"A","B","C","D","E","F","G","H","I","J","K","L","M",
           "N","O","P","Q","R","S","T","U","V","W","X","Y","Z">>
Lowers == <<"a","b","c","d","e","f","g","h","i","j","k","l","m",
            "n","o","p","q","r","s","t","u","v","w","x","y","z">>

\* one character, case-folded (re.IGNORECASE)
LowerChar(c) ==
  IF \E i \in 1..Len(Upper) : Upper[i] = c
  THEN Lowers[CHOOSE i \in 1..Len(Upper) : Upper[i] = c]
  ELSE c

LowerStr(s) == [i \in 1..Len(s) |-> LowerChar(s[i])]

\* positions of s holding a character that is not whitespace
Inked(s) == {i \in 1..Len(s) : s[i] \notin Whitespace}

Least(S) == CHOOSE i \in S : \A j \in S : i <= j

\* str.strip()
Strip(s) ==
  LET n == Len(s)
      first == Least(Inked(s))
      last == n + 1 - Least({n + 1 - i : i \in Inked(s)})
  IN  IF Inked(s) = {} THEN <<>> ELSE SubSeq(s, first, last)

\* s[:n]
Take(s, n) == IF Len(s) > n THEN SubSeq(s, 1, n) ELSE s

\* s.split('\n')[0]
SplitFirst(s) ==
  LET breaks == {i \in 1..Len(s) : s[i] = "\n"}
  IN  IF breaks = {} THEN s ELSE SubSeq(s, 1, Least(breaks) - 1)

\* the characters removed by re.sub(r'[\\/*?:"<>|]', '', title)
Prohibited == {"\\", "/", "*", "?", ":", "\"", "<", ">", "|"}

\* re.sub with count=1: only the first prohibited character is removed
RemoveProhibited_FirstOnly(s) ==
  LET hits == {i \in DOMAIN s : s[i] \in Prohibited}
  IN  IF hits = {} THEN s
      ELSE [i \in 1..(Len(s) - 1) |-> IF i < Least(hits) THEN s[i] ELSE s[i + 1]]

\* re.sub(r'[\\/*?:"<>|]', '', s)
RemoveProhibited(s) == SelectSeq(s, LAMBDA c : c \notin Prohibited)

\* dict.get(key, default)
GetOr(d, key, default) == IF key \in DOMAIN d THEN d[key] ELSE default

-----------------------------------------------------------------------------
(* Title policy *)

Untitled == <<"u","n","t","i","t","l","e","d">>
UntitledDocument == Untitled \o <<" ","d","o","c","u","m","e","n","t">>

\* two characters outside ASCII, each written as one character of a title:
\* U+0131 (small dotless i) and U+0130 (capital I with dot above)
DotlessI == "U+0131"
DottedI == "U+0130"

\* the characters re.IGNORECASE takes for an "i" of the pattern besides "i"
\* and "I"; no other letter of the pattern has such a partner
FoldChar(c) == IF c \in {DotlessI, DottedI} THEN "i" ELSE LowerChar(c)

FoldStr(s) == [i \in 1..Len(s) |-> FoldChar(s[i])]

\* re.match(r'^Untitled(?: document)?$', title, re.IGNORECASE): `$` matches at
\* the end of the string and also just before a newline that ends the string
PlaceholderMatch(title) ==
  LET low == FoldStr(title)
      cut == IF low # <<>> /\ low[Len(low)] = "\n"
             THEN SubSeq(low, 1, Len(low) - 1) ELSE low
  IN  low \in {Untitled, UntitledDocument} \/ cut \in {Untitled, UntitledDocument}

is_untitled(title) == PlaceholderMatch(title)

is_meaningful(title) == Len(Strip(title)) > 5 /\ ~PlaceholderMatch(title)

max_length == 100
char_limit == 100

\* validate_title without the truncation and the re.sub
validate_title_NoSanitize(title, maxlen) ==
  IF title = <<>> THEN [kind |-> "False", val |-> <<>>]
  ELSE [kind |-> "str", val |-> title]

\* validate_title returns False for a falsy title, else the truncated title
\* with the prohibited characters removed (possibly the empty string)
validate_title(title, maxlen) ==
  IF title = <<>> THEN [kind |-> "False", val |-> <<>>]
  ELSE [kind |-> "str", val |-> RemoveProhibited(Take(title, maxlen))]

-----------------------------------------------------------------------------
(* Content walker: get_first_line *)

NoLine == [kind |-> "none", val |-> <<>>]       \* the loop ran out: return None
Raised == [kind |-> "raised", val |-> <<>>]     \* an exception, caught: return None
Line(s) == [kind |-> "line", val |-> s]         \* return first_line

\* text.split('\n')[0][:char_limit] of the stripped text
FirstLineOf(text, limit) == Take(SplitFirst(text), limit)

\* a TextRun's text taken without .strip()
RunText_NoStrip(elem) ==
  LET text_run == GetOr(elem, "textRun", <<>>)
  IN  IF DOMAIN text_run # {} /\ "content" \in DOMAIN text_run
      THEN text_run["content"] ELSE <<>>

\* `if text_run and 'content' in text_run` and `if text:` for one paragraph element
RunText(elem) ==
  LET text_run == GetOr(elem, "textRun", <<>>)
  IN  IF DOMAIN text_run # {} /\ "content" \in DOMAIN text_run
      THEN Strip(text_run["content"]) ELSE <<>>

\* the loop over a paragraph's elements (lines 124-133 and 146-155)
RECURSIVE ScanElements(_, _, _)
ScanElements(elements, i, limit) ==
  IF i > Len(elements) THEN NoLine
  ELSE IF RunText(elements[i]) # <<>> THEN Line(FirstLineOf(RunText(elements[i]), limit))
  ELSE ScanElements(elements, i + 1, limit)

\* the loop over a cell's content (lines 142-155): paragraphs only, an absent
\* 'elements' list is empty
RECURSIVE ScanCellContent(_, _, _)
ScanCellContent(cell_content, i, limit) ==
  IF i > Len(cell_content) THEN NoLine
  ELSE LET cell_element == cell_content[i]
           r == IF "paragraph" \in DOMAIN cell_element
                THEN ScanElements(GetOr(cell_element["paragraph"], "elements", <<>>), 1, limit)
                ELSE NoLine
       IN  IF r.kind = "line" THEN r ELSE ScanCellContent(cell_content, i + 1, limit)

\* the loop over a row's cells (lines 139-141)
RECURSIVE ScanCells(_, _, _)
ScanCells(cells, i, limit) ==
  IF i > Len(cells) THEN NoLine
  ELSE LET r == ScanCellContent(GetOr(cells[i], "content", <<>>), 1, limit)
       IN  IF r.kind = "line" THEN r ELSE ScanCells(cells, i + 1, limit)

\* the loop over a table's rows (lines 136-139)
RECURSIVE ScanRows(_, _, _)
ScanRows(rows, i, limit) ==
  IF i > Len(rows) THEN NoLine
  ELSE LET r == ScanCells(GetOr(rows[i], "tableCells", <<>>), 1, limit)
       IN  IF r.kind = "line" THEN r ELSE ScanRows(rows, i + 1, limit)

\* one top-level element (lines 119-160); a paragraph without 'elements' makes
\* len(elements) raise TypeError
ScanElement(element, limit) ==
  IF "paragraph" \in DOMAIN element
  THEN IF "elements" \in DOMAIN element["paragraph"]
       THEN ScanElements(element["paragraph"]["elements"], 1, limit)
       ELSE Raised
  ELSE IF "table" \in DOMAIN element
  THEN ScanRows(GetOr(element["table"], "tableRows", <<>>), 1, limit)
  ELSE NoLine

\* the loop over the body's content (line 118)
RECURSIVE ScanContent(_, _, _)
ScanContent(body_content, i, limit) ==
  IF i > Len(body_content) THEN NoLine
  ELSE LET r == ScanElement(body_content[i], limit)
       IN  IF r.kind # "none" THEN r ELSE ScanContent(body_content, i + 1, limit)

\* get_first_line on a fetched document: document.get('body').get('content')
\* raises when 'body' is absent, enumerate(None) raises when 'content' is
get_first_line(document, limit) ==
  IF "body" \notin DOMAIN document THEN Raised
  ELSE IF "content" \notin DOMAIN document["body"] THEN Raised
  ELSE ScanContent(document["body"]["content"], 1, limit)

-----------------------------------------------------------------------------
(* Inputs: titles, texts and documents the remote store may hold *)

NumDocs == 2   \* documents in a non-empty store

T_UntitledDocument == <<"U","n","t","i","t","l","e","d"," ","d","o","c","u","m","e","n","t">>
T_Untitled == <<"U","n","t","i","t","l","e","d">>
T_UPPER == <<"U","N","T","I","T","L","E","D">>
T_UntitledNL == <<"U","n","t","i","t","l","e","d","\n">>
T_UntitledNotes == <<"U","n","t","i","t","l","e","d"," ","N","o","t","e","s">>
T_BudgetDraft == <<"B","u","d","g","e","t"," ","D","r","a","f","t">>

RenameTitles == {T_UntitledDocument, T_UntitledNL, T_UntitledNotes}

X_Meeting == <<"M","e","e","t","i","n","g"," ","N","o","t","e","s"," ","2","0","2","4","\n","m","o","r","e"," ","t","e","x","t">>
X_MeetingLine == <<"M","e","e","t","i","n","g"," ","N","o","t","e","s"," ","2","0","2","4">>
X_Q3 == <<"Q","3"," ","R","e","p","o","r","t">>
X_Blank == <<" ","U+000B","\n">>
X_Padded == <<"U+00A0","H","i","\n","y","o"," ">>
X_OnlyProhibited == <<"?","?",":">>
X_Mixed == <<"a","/","b",":"," ","c","?">>
X_A == <<"A">>
X_B == <<"B">>

Repeat(s, n) == [i \in 1..(n * Len(s)) |-> s[((i - 1) % Len(s)) + 1]]

\* 120 characters, longer than char_limit and max_length
X_Long == Repeat(<<"a","b","/">>, 40)

Run(text) == [textRun |-> [content |-> text]]
Para(elements) == [paragraph |-> [elements |-> elements]]
Cell(cell_content) == [content |-> cell_content]
Row(cells) == [tableCells |-> cells]
Table(rows) == [table |-> [tableRows |-> rows]]
Doc(body_content) == [body |-> [content |-> body_content]]
SectionBreak == [sectionBreak |-> <<>>]
UnknownElement == [tableOfContents |-> <<>>]
InlineObject == [inlineObjectElement |-> <<>>]

DocEmpty == Doc(<<>>)
DocMeeting == Doc(<<Para(<<Run(X_Meeting)>>)>>)
DocQ3InCell == Doc(<<SectionBreak, Table(<<Row(<<Cell(<<Para(<<Run(X_Q3)>>)>>)>>)>>)>>)
DocBlankThenPadded ==
  Doc(<<Para(<<Run(X_Blank), InlineObject, [textRun |-> <<>>]>>), UnknownElement,
        Para(<<Run(X_Padded), Run(X_A)>>)>>)
DocOnlyProhibited == Doc(<<Para(<<Run(X_OnlyProhibited)>>)>>)
DocMixed == Doc(<<Para(<<Run(X_Mixed)>>)>>)
DocLong == Doc(<<Para(<<Run(X_Long)>>)>>)
DocBlankOnly == Doc(<<SectionBreak, Para(<<Run(X_Blank)>>), UnknownElement, Table(<<>>)>>)
DocSecondRow ==
  Doc(<<Table(<<Row(<<Cell(<<Para(<<Run(X_Blank)>>)>>), Cell(<<>>)>>),
                Row(<<Cell(<<Para(<<>>), Para(<<Run(X_Q3)>>)>>)>>)>>),
        Para(<<Run(X_B)>>)>>)
\* a table nested in a cell, followed by a paragraph
DocNestedThenPara ==
  Doc(<<Table(<<Row(<<Cell(<<Table(<<Row(<<Cell(<<Para(<<Run(X_A)>>)>>)>>)>>)>>)>>)>>),
        Para(<<Run(X_B)>>)>>)
DocNestedOnly ==
  Doc(<<Table(<<Row(<<Cell(<<Table(<<Row(<<Cell(<<Para(<<Run(X_A)>>)>>)>>)>>)>>)>>)>>)>>)
\* optional fields absent
DocParaNoElements == Doc(<<[paragraph |-> <<>>], Para(<<Run(X_B)>>)>>)
DocTableGaps ==
  Doc(<<[table |-> <<>>], Table(<<[other |-> <<>>]>>), Table(<<Row(<<[other |-> <<>>]>>)>>),
        Table(<<Row(<<Cell(<<[paragraph |-> <<>>]>>)>>)>>), Para(<<Run(X_B)>>)>>)
DocNoBody == [title |-> T_Untitled]
DocNoContent == [body |-> <<>>]
\* a document whose first line is itself a placeholder title
DocUntitled == Doc(<<Para(<<Run(T_UntitledDocument)>>)>>)

DocSamples ==
  {DocEmpty, DocMeeting, DocQ3InCell, DocBlankThenPadded, DocOnlyProhibited, DocMixed,
   DocLong, DocBlankOnly, DocSecondRow, DocNestedThenPara, DocNestedOnly,
   DocParaNoElements, DocTableGaps, DocNoBody, DocNoContent, DocUntitled}

NoContent == <<>>    \* no document fetched

-----------------------------------------------------------------------------
(* Observer *)

None == "None"                               \* Python's None, for a FolderId
Unset == [kind |-> "unset", val |-> <<>>]      \* a local not assigned in this iteration

\* per document: remote calls issued (fetch .. update), mutation calls that took
\* effect (applied), terminal operations main invoked (terminal), sleeps (pauses),
\* what get_first_line returned (got), the title passed to the rename call (arg),
\* the folder passed to move_document_to_folder (moved_to), the parents before
\* the run (parents0)
LogInit ==
  [fetch |-> 0, rename |-> 0, trash |-> 0, classify |-> 0, get |-> 0, update |-> 0,
   applied |-> 0, terminal |-> <<>>, pauses |-> 0, got |-> Unset, arg |-> <<>>,
   moved_to |-> None, parents0 |-> {}]

Bit(b) == IF b THEN 1 ELSE 0

\* nothing noted for a document
Unseen == [content |-> Unset, answer |-> Unset]

\* a remote call succeeds or fails; the two runs of a re-run are free of failures
CallOutcomes == IF run = 0 THEN BOOLEAN ELSE {TRUE}

\* what the remote side answered for a document in the first of two runs
Noted(d, field, v) == IF run = 1 THEN [seen EXCEPT ![d][field] = v] ELSE seen

\* documents fetched in the first of two runs
RerunDocs == {DocEmpty, DocMeeting, DocMixed, DocOnlyProhibited, DocNoBody, DocUntitled}

\* the content fetch: any document or a failure; in a re-run the document's
\* content is the one the first run fetched
FetchOutcomes(d) ==
  IF run = 0 THEN DocSamples \cup {NoContent}
  ELSE IF run = 2 /\ seen[d].content # Unset THEN {seen[d].content}
  ELSE RerunDocs

-----------------------------------------------------------------------------
(* Listing: list_google_docs and the head of main *)

StoreDocs == DOMAIN name

\* the next `k` records of the store's listing after the `n` already fetched
PageOf(n, k) == [i \in 1..k |-> [id |-> n + i, name |-> name[n + i]]]

\* the nextPageToken the store hands out with a page that is not the last one:
\* one token per number of records returned so far
PageTokens == <<"t1", "t2", "t3", "t4">>

\* where main goes once list_google_docs has returned `listed`
AfterListing(listed) ==
  IF listed = <<>> THEN "done"
  ELSE IF workflow = "rename" THEN "loop" ELSE "resolve"

\* the position after the document at `i` has been handled
AfterDoc(i) == IF i >= Len(docs) THEN "done" ELSE "loop"

\* a listing that never follows the nextPageToken
ListPage_FirstPageOnly ==
  /\ pc = "list"
  /\ \E ok \in CallOutcomes :
       \E k \in 0..(Cardinality(StoreDocs) - Len(docs)) :
         /\ k = 0 => StoreDocs = {}
         /\ LET listed == IF ok THEN docs \o PageOf(Len(docs), k) ELSE <<>>
                last == ~ok \/ Len(listed) = Cardinality(StoreDocs)
            IN  /\ docs' = listed
                /\ page_token' = IF ~ok THEN page_token
                                 ELSE IF last THEN None ELSE PageTokens[Len(listed)]
                /\ pc' = AfterListing(listed)
                /\ todo' = IF AfterListing(listed) = "resolve" THEN categories ELSE todo
  /\ UNCHANGED <<run, left, seen, call, workflow, name, trashed, parents, folders, idx, content, first_line,
                 validated_title, categories, resolving, folder_ids, response, category,
                 target, previous_parents, log, resolutions>>

\* a listing whose handler returns the pages fetched before the failure
ListPage_KeepPages ==
  /\ pc = "list"
  /\ \E ok \in CallOutcomes :
       \E k \in 0..(Cardinality(StoreDocs) - Len(docs)) :
         /\ k = 0 => StoreDocs = {}
         /\ LET listed == IF ok THEN docs \o PageOf(Len(docs), k) ELSE docs
                last == ~ok \/ Len(listed) = Cardinality(StoreDocs)
            IN  /\ docs' = listed
                /\ page_token' = IF ~ok THEN page_token
                                 ELSE IF last THEN None ELSE PageTokens[Len(listed)]
                /\ pc' = IF last THEN AfterListing(listed) ELSE "list"
                /\ todo' = IF last /\ AfterListing(listed) = "resolve" THEN categories ELSE todo
  /\ UNCHANGED <<run, left, seen, call, workflow, name, trashed, parents, folders, idx, content, first_line,
                 validated_title, categories, resolving, folder_ids, response, category,
                 target, previous_parents, log, resolutions>>

\* one files().list call of the paging loop: it fails (the function returns []),
\* or returns a page and, unless the page is the last one, a nextPageToken
ListPage ==
  /\ pc = "list"
  /\ \E ok \in CallOutcomes :
       \E k \in 0..(Cardinality(StoreDocs) - Len(docs)) :
         /\ k = 0 => StoreDocs = {}
         /\ LET listed == IF ok THEN docs \o PageOf(Len(docs), k) ELSE <<>>
                last == ~ok \/ Len(listed) = Cardinality(StoreDocs)
            IN  /\ docs' = listed
                /\ page_token' = IF ~ok THEN page_token
                                 ELSE IF last THEN None ELSE PageTokens[Len(listed)]
                /\ pc' = IF last THEN AfterListing(listed) ELSE "list"
                /\ todo' = IF last /\ AfterListing(listed) = "resolve" THEN categories ELSE todo
  /\ UNCHANGED <<run, left, seen, call, workflow, name, trashed, parents, folders, idx, content, first_line,
                 validated_title, categories, resolving, folder_ids, response, category,
                 target, previous_parents, log, resolutions>>

-----------------------------------------------------------------------------
(* Rename-or-trash workflow: gduntitlerename.main *)

Cur == docs[idx]

\* Python truthiness of what get_first_line / validate_title returned
TruthyLine(r) == r.kind = "line" /\ r.val # <<>>
TruthyTitle(v) == v.kind = "str" /\ v.val # <<>>

\* files().update(fileId, body={'name': new_title}): the store's effect
update_document_title(names, doc_id, new_title, ok) ==
  IF ok THEN [names EXCEPT ![doc_id] = new_title] ELSE names

\* files().update(fileId, body={'trashed': True}): the store's effect
trash_document(flags, doc_id, ok) ==
  IF ok THEN [flags EXCEPT ![doc_id] = TRUE] ELSE flags

\* the else branch of `if is_untitled(title)`: the document is only logged
RenameSkip ==
  /\ workflow = "rename" /\ pc = "loop"
  /\ ~is_untitled(Cur.name)
  /\ log' = [log EXCEPT ![Cur.id].terminal = Append(@, "skipped")]
  /\ idx' = idx + 1
  /\ pc' = AfterDoc(idx)
  /\ UNCHANGED <<page_token, run, left, seen, call, workflow, name, trashed, parents, folders, docs, content, first_line,
                 validated_title, categories, todo, resolving, folder_ids, response, category,
                 target, previous_parents, resolutions>>

\* the content fetch of get_first_line, the walk, validate_title and the choice
\* of the terminal action (lines 224-234)
RenameFetch ==
  /\ workflow = "rename" /\ pc = "loop"
  /\ is_untitled(Cur.name)
  /\ \E document \in FetchOutcomes(Cur.id) :
       LET fl == IF document = NoContent THEN Raised
                 ELSE get_first_line(document, char_limit)
           vt == IF TruthyLine(fl) THEN validate_title(fl.val, max_length)
                 ELSE [kind |-> "False", val |-> <<>>]
       IN  /\ content' = document
           /\ first_line' = fl
           /\ validated_title' = vt
           /\ pc' = IF TruthyLine(fl) /\ TruthyTitle(vt) THEN "rename" ELSE "trash"
           /\ log' = [log EXCEPT ![Cur.id].fetch = @ + 1, ![Cur.id].got = fl]
           /\ seen' = Noted(Cur.id, "content", document)
  /\ UNCHANGED <<page_token, run, left, call, workflow, name, trashed, parents, folders, docs, idx, categories, todo,
                 resolving, folder_ids, response, category, target, previous_parents, resolutions>>

\* update_document_title whose failure falls through to trash_document
RenameUpdate_ThenTrash ==
  /\ workflow = "rename" /\ pc = "rename"
  /\ \E ok \in CallOutcomes :
       /\ name' = update_document_title(name, Cur.id, validated_title.val, ok)
       /\ log' = [log EXCEPT ![Cur.id].rename = @ + 1,
                             ![Cur.id].applied = @ + Bit(ok),
                             ![Cur.id].terminal = Append(@, "rename"),
                             ![Cur.id].arg = validated_title.val,
                             ![Cur.id].pauses = @ + Bit(ok)]
       /\ idx' = IF ok THEN idx + 1 ELSE idx
       /\ pc' = IF ok THEN AfterDoc(idx) ELSE "trash"
       /\ content' = IF ok THEN NoContent ELSE content
       /\ first_line' = IF ok THEN Unset ELSE first_line
       /\ validated_title' = IF ok THEN Unset ELSE validated_title
  /\ UNCHANGED <<page_token, run, left, seen, call, workflow, trashed, parents, folders, docs, categories, todo, resolving,
                 folder_ids, response, category, target, previous_parents, resolutions>>

\* update_document_title, then the finally clause's sleep
RenameUpdate ==
  /\ workflow = "rename" /\ pc = "rename"
  /\ \E ok \in CallOutcomes :
       /\ name' = update_document_title(name, Cur.id, validated_title.val, ok)
       /\ log' = [log EXCEPT ![Cur.id].rename = @ + 1,
                             ![Cur.id].applied = @ + Bit(ok),
                             ![Cur.id].terminal = Append(@, "rename"),
                             ![Cur.id].arg = validated_title.val,
                             ![Cur.id].pauses = @ + 1]
  /\ idx' = idx + 1
  /\ pc' = AfterDoc(idx)
  /\ content' = NoContent /\ first_line' = Unset /\ validated_title' = Unset
  /\ UNCHANGED <<page_token, run, left, seen, call, workflow, trashed, parents, folders, docs, categories, todo, resolving,
                 folder_ids, response, category, target, previous_parents, resolutions>>

\* trash_document, then the finally clause's sleep
RenameTrash ==
  /\ workflow = "rename" /\ pc = "trash"
  /\ \E ok \in CallOutcomes :
       /\ trashed' = trash_document(trashed, Cur.id, ok)
       /\ log' = [log EXCEPT ![Cur.id].trash = @ + 1,
                             ![Cur.id].applied = @ + Bit(ok),
                             ![Cur.id].terminal = Append(@, "trash"),
                             ![Cur.id].pauses = @ + 1]
  /\ idx' = idx + 1
  /\ pc' = AfterDoc(idx)
  /\ content' = NoContent /\ first_line' = Unset /\ validated_title' = Unset
  /\ UNCHANGED <<page_token, run, left, seen, call, workflow, name, parents, folders, docs, categories, todo, resolving,
                 folder_ids, response, category, target, previous_parents, resolutions>>

-----------------------------------------------------------------------------
(* Categorize-and-move workflow: sortGD *)

Poetry == <<"P","o","e","t","r","y">>
Notes == <<"N","o","t","e","s">>
Other == <<"O","t","h","e","r">>
L_PoetryPadded == <<" ","P","o","e","t","r","y","\n">>
L_lower == <<"p","o","e","t","r","y">>
L_Fiction == <<"F","i","c","t","i","o","n">>

\* CATEGORIES as the script has it, and variants with "more categories as needed"
CATEGORIES == << <<Poetry, Poetry>> >>
Configs ==
  { CATEGORIES,
    << <<Poetry, Poetry>>, <<Notes, Poetry>> >>,
    << <<Other, Other>>, <<Poetry, Poetry>> >>,
    << <<Poetry, Other>> >> }

\* `category in CATEGORIES`
CategoryKeys(cats) == {cats[i][1] : i \in DOMAIN cats}

\* what the chat completion call does: a label, a response without the expected
\* fields, or an exception
Labels == {L_PoetryPadded, Notes, L_lower, L_Fiction, <<>>}
ClassifierOutcomes ==
  {[kind |-> "label", text |-> l] : l \in Labels}
    \cup {[kind |-> "malformed", text |-> <<>>], [kind |-> "error", text |-> <<>>]}

\* the chat completion call: any outcome; in the first of two runs it does not
\* fail, and in the re-run its answer for a document is the one of the first run
ClassifyOutcomes(d) ==
  IF run = 0 THEN ClassifierOutcomes
  ELSE IF run = 2 /\ seen[d].answer # Unset THEN {seen[d].answer}
  ELSE ClassifierOutcomes \ {[kind |-> "error", text |-> <<>>]}

\* categorize_document without the `category in CATEGORIES` check
categorize_document_Raw(title, answer, cats) ==
  IF answer.kind = "label" THEN Strip(answer.text) ELSE Other

categorize_document(title, answer, cats) ==
  IF answer.kind = "label"
  THEN IF Strip(answer.text) \in CategoryKeys(cats) THEN Strip(answer.text) ELSE Other
  ELSE Other

\* folders of the store before the run
FolderInits ==
  { <<>>,
    <<[id |-> "f1", name |-> Poetry], [id |-> "f2", name |-> Other],
      [id |-> "f3", name |-> Other]>> }

\* documents of the store before a sort run: title and parents
SortProfiles ==
  { [name |-> T_BudgetDraft, parents |-> {"root"}],
    [name |-> T_Untitled, parents |-> {"f1"}],
    [name |-> T_UPPER, parents |-> {"root", "f1"}],
    [name |-> <<>>, parents |-> {}] }

\* ids the store gives to the folders it creates
NewIds == <<"n1", "n2", "n3", "n4", "n5", "n6", "n7", "n8", "n9", "n10">>

\* a lookup whose query matches no folder
Matching_Nothing(fs, folder_name) == <<>>

\* files().list(q = name = folder_name ...): the matching folders, in store order
Matching(fs, folder_name) == SelectSeq(fs, LAMBDA f : f.name = folder_name)

EmptyMap == [k \in {} |-> None]
Put(m, k, v) == [x \in DOMAIN m \cup {k} |-> IF x = k THEN v ELSE m[x]]

\* main's `if folder_id: folder_ids[category] = folder_id`
Record(ids, key, folder_id) == IF folder_id # None THEN Put(ids, key, folder_id) ELSE ids

\* the get_or_create_folder call main makes next: the next item of CATEGORIES,
\* or "Other" once the loop is over
NextResolve ==
  IF todo # <<>> THEN [key |-> Head(todo)[1], name |-> Head(todo)[2], last |-> FALSE]
  ELSE [key |-> Other, name |-> Other, last |-> TRUE]

\* get_or_create_folder up to the lookup's answer (lines 163-179), for an item
\* of CATEGORIES
ResolveLookup ==
  /\ workflow = "sort" /\ pc = "resolve"
  /\ todo # <<>>
  /\ \E ok \in CallOutcomes :
       LET r == NextResolve
           found == Matching(folders, r.name)
       IN  IF ok /\ found = <<>>
           THEN /\ pc' = "create" /\ resolving' = r
                /\ UNCHANGED <<folder_ids, resolutions>>
           ELSE LET folder_id == IF ok THEN found[1].id ELSE None
                IN  /\ pc' = "resolve" /\ resolving' = Unset
                    /\ folder_ids' = Record(folder_ids, r.key, folder_id)
                    /\ resolutions' = Append(resolutions,
                         [name |-> r.name, id |-> folder_id, create |-> FALSE])
  /\ todo' = Tail(todo)
  /\ UNCHANGED <<page_token, run, left, seen, call, workflow, name, trashed, parents, folders, docs, idx, content, first_line,
                 validated_title, categories, response, category, target, previous_parents, log>>

\* `if "Other" not in folder_ids:` and the lookup of get_or_create_folder("Other")
OtherLookup ==
  /\ workflow = "sort" /\ pc = "resolve"
  /\ todo = <<>>
  /\ IF Other \in DOMAIN folder_ids
     THEN /\ pc' = "loop"
          /\ UNCHANGED <<resolving, folder_ids, resolutions>>
     ELSE \E ok \in CallOutcomes :
       LET r == NextResolve
           found == Matching(folders, r.name)
       IN  IF ok /\ found = <<>>
           THEN /\ pc' = "create" /\ resolving' = r
                /\ UNCHANGED <<folder_ids, resolutions>>
           ELSE LET folder_id == IF ok THEN found[1].id ELSE None
                IN  /\ pc' = "loop" /\ resolving' = Unset
                    /\ folder_ids' = Record(folder_ids, r.key, folder_id)
                    /\ resolutions' = Append(resolutions,
                         [name |-> r.name, id |-> folder_id, create |-> FALSE])
  /\ UNCHANGED <<page_token, run, left, seen, call, workflow, name, trashed, parents, folders, docs, idx, content, first_line,
                 validated_title, categories, todo, response, category, target, previous_parents, log>>

\* files().create of get_or_create_folder (lines 181-192): the store's effect
create_folder(fs, folder_name, ok) ==
  IF ok THEN Append(fs, [id |-> NewIds[Len(fs) + 1], name |-> folder_name]) ELSE fs

FolderCreate ==
  /\ workflow = "sort" /\ pc = "create"
  /\ \E ok \in CallOutcomes :
       LET folder_id == IF ok THEN NewIds[Len(folders) + 1] ELSE None
       IN  /\ folders' = create_folder(folders, resolving.name, ok)
           /\ folder_ids' = Record(folder_ids, resolving.key, folder_id)
           /\ resolutions' = Append(resolutions,
                [name |-> resolving.name, id |-> folder_id, create |-> TRUE])
  /\ pc' = IF resolving.last THEN "loop" ELSE "resolve"
  /\ resolving' = Unset
  /\ UNCHANGED <<page_token, run, left, seen, call, workflow, name, trashed, parents, docs, idx, content, first_line,
                 validated_title, categories, todo, response, category, target, previous_parents, log>>

\* the fallback's folder preferred to the category's
ChooseFolder_FallbackFirst(ids, cat) == GetOr(ids, Other, GetOr(ids, cat, None))

\* the Drive root when no folder is resolved
ChooseFolder_Root(ids, cat) ==
  LET folder_id == GetOr(ids, cat, GetOr(ids, Other, None))
  IN  IF folder_id # None THEN folder_id ELSE "root"

\* lines 259-269: the folder of the category, else the fallback's, else None
ChooseFolder(ids, cat) ==
  LET folder_id == GetOr(ids, cat, GetOr(ids, Other, None))
  IN  IF folder_id # None THEN folder_id ELSE GetOr(ids, Other, None)

\* classification only of the documents whose title is_meaningful
SortClassify_Gated ==
  /\ workflow = "sort" /\ pc = "loop"
  /\ IF is_meaningful(Cur.name)
     THEN /\ \E answer \in ClassifyOutcomes(Cur.id) :
               LET c == categorize_document(Cur.name, answer, categories)
               IN  /\ response' = answer
                   /\ category' = IF c = <<>> THEN Other ELSE c
                   /\ seen' = Noted(Cur.id, "answer", answer)
          /\ pc' = "classified"
          /\ log' = [log EXCEPT ![Cur.id].classify = @ + 1]
          /\ idx' = idx
     ELSE /\ log' = [log EXCEPT ![Cur.id].terminal = Append(@, "skipped"),
                                ![Cur.id].pauses = @ + 1]
          /\ pc' = AfterDoc(idx) /\ idx' = idx + 1
          /\ UNCHANGED <<response, category, seen>>
  /\ UNCHANGED <<page_token, run, left, call, workflow, name, trashed, parents, folders, docs, content, first_line,
                 validated_title, categories, todo, resolving, folder_ids, target,
                 previous_parents, resolutions>>

\* categorize_document and `if not category` (lines 254-256)
SortClassify ==
  /\ workflow = "sort" /\ pc = "loop"
  /\ \E answer \in ClassifyOutcomes(Cur.id) :
       LET c == categorize_document(Cur.name, answer, categories)
       IN  /\ response' = answer
           /\ category' = IF c = <<>> THEN Other ELSE c
           /\ seen' = Noted(Cur.id, "answer", answer)
  /\ pc' = "classified"
  /\ log' = [log EXCEPT ![Cur.id].classify = @ + 1]
  /\ UNCHANGED <<page_token, run, left, call, workflow, name, trashed, parents, folders, docs, idx, content, first_line,
                 validated_title, categories, todo, resolving, folder_ids, target,
                 previous_parents, resolutions>>

\* the choice of the folder (lines 259-269); without a folder the document is
\* done, and the finally clause sleeps
SortChoose ==
  /\ workflow = "sort" /\ pc = "classified"
  /\ LET folder_id == ChooseFolder(folder_ids, category)
     IN  IF folder_id # None
         THEN /\ target' = folder_id /\ pc' = "get"
              /\ UNCHANGED <<category, idx, log>>
         ELSE /\ target' = None /\ pc' = AfterDoc(idx)
              /\ category' = <<>>
              /\ log' = [log EXCEPT ![Cur.id].terminal = Append(@, "nofolder"),
                                    ![Cur.id].pauses = @ + 1]
              /\ idx' = idx + 1
  /\ response' = Unset
  /\ UNCHANGED <<page_token, run, left, seen, call, workflow, name, trashed, parents, folders, docs, content, first_line,
                 validated_title, categories, todo, resolving, folder_ids,
                 previous_parents, resolutions>>

\* a parents read that is issued again after it failed
MoveGet_Retry ==
  /\ workflow = "sort" /\ pc = "get"
  /\ \E ok \in CallOutcomes :
       IF ok /\ parents[Cur.id] # {}
       THEN /\ previous_parents' = parents[Cur.id]
            /\ pc' = "update" /\ idx' = idx
            /\ log' = [log EXCEPT ![Cur.id].get = @ + 1,
                                  ![Cur.id].terminal = Append(@, "move"),
                                  ![Cur.id].moved_to = target]
            /\ UNCHANGED <<category, target>>
       ELSE IF ~ok
       THEN /\ log' = [log EXCEPT ![Cur.id].get = @ + 1]
            /\ UNCHANGED <<previous_parents, pc, idx, category, target>>
       ELSE /\ previous_parents' = {}
            /\ pc' = AfterDoc(idx) /\ idx' = idx + 1
            /\ log' = [log EXCEPT ![Cur.id].get = @ + 1,
                                  ![Cur.id].terminal = Append(@, "move"),
                                  ![Cur.id].moved_to = target,
                                  ![Cur.id].pauses = @ + 1]
            /\ category' = <<>> /\ target' = None
  /\ UNCHANGED <<page_token, run, left, seen, call, workflow, name, trashed, parents, folders, docs, content, first_line,
                 validated_title, categories, todo, resolving, folder_ids, response,
                 resolutions>>

\* move_document_to_folder up to previous_parents (lines 204-205): the read
\* fails, or ",".join(None) raises for a file without parents
MoveGet ==
  /\ workflow = "sort" /\ pc = "get"
  /\ \E ok \in CallOutcomes :
       IF ok /\ parents[Cur.id] # {}
       THEN /\ previous_parents' = parents[Cur.id]
            /\ pc' = "update" /\ idx' = idx
            /\ log' = [log EXCEPT ![Cur.id].get = @ + 1,
                                  ![Cur.id].terminal = Append(@, "move"),
                                  ![Cur.id].moved_to = target]
            /\ UNCHANGED <<category, target>>
       ELSE /\ previous_parents' = {}
            /\ pc' = AfterDoc(idx) /\ idx' = idx + 1
            /\ log' = [log EXCEPT ![Cur.id].get = @ + 1,
                                  ![Cur.id].terminal = Append(@, "move"),
                                  ![Cur.id].moved_to = target,
                                  ![Cur.id].pauses = @ + 1]
            /\ category' = <<>> /\ target' = None
  /\ UNCHANGED <<page_token, run, left, seen, call, workflow, name, trashed, parents, folders, docs, content, first_line,
                 validated_title, categories, todo, resolving, folder_ids, response,
                 resolutions>>

\* a move that only adds the new parent
RemoveParents_None(read) == {}

\* a failed files().update that escapes the handlers and ends the run
MoveUpdate_Abort ==
  /\ workflow = "sort" /\ pc = "update"
  /\ \E ok \in CallOutcomes :
       /\ parents' = IF ok THEN [parents EXCEPT ![Cur.id] = (@ \ previous_parents) \cup {target}]
                     ELSE parents
       /\ log' = [log EXCEPT ![Cur.id].update = @ + 1,
                             ![Cur.id].applied = @ + Bit(ok),
                             ![Cur.id].pauses = @ + Bit(ok)]
       /\ idx' = IF ok THEN idx + 1 ELSE idx
       /\ pc' = IF ok THEN AfterDoc(idx) ELSE "aborted"
  /\ response' = Unset /\ category' = <<>> /\ target' = None /\ previous_parents' = {}
  /\ UNCHANGED <<page_token, run, left, seen, call, workflow, name, trashed, folders, docs, content, first_line,
                 validated_title, categories, todo, resolving, folder_ids, resolutions>>

\* what removeParents carries: every parent that was read
RemoveParents(read) == read

\* files().update(fileId, addParents, removeParents): the store's effect
reparent(ps, doc_id, add, remove, ok) ==
  IF ok THEN [ps EXCEPT ![doc_id] = (@ \ remove) \cup {add}] ELSE ps

\* the single files().update of move_document_to_folder (lines 208-213), then
\* the finally clause's sleep
MoveUpdate ==
  /\ workflow = "sort" /\ pc = "update"
  /\ \E ok \in CallOutcomes :
       /\ parents' = reparent(parents, Cur.id, target, RemoveParents(previous_parents), ok)
       /\ log' = [log EXCEPT ![Cur.id].update = @ + 1,
                             ![Cur.id].applied = @ + Bit(ok),
                             ![Cur.id].pauses = @ + 1]
  /\ idx' = idx + 1
  /\ pc' = AfterDoc(idx)
  /\ response' = Unset /\ category' = <<>> /\ target' = None /\ previous_parents' = {}
  /\ UNCHANGED <<page_token, run, left, seen, call, workflow, name, trashed, folders, docs, content, first_line,
                 validated_title, categories, todo, resolving, folder_ids, resolutions>>

-----------------------------------------------------------------------------
(* The run *)

Docs == 1..NumDocs

\* no direct call of validate_title is under way
NoCall == [title |-> <<>>, max_length |-> max_length, result |-> Unset, again |-> Unset]

InitCommon ==
  /\ pc = "list" /\ docs = <<>> /\ page_token = None /\ idx = 1
  /\ content = NoContent /\ first_line = Unset /\ validated_title = Unset
  /\ todo = <<>> /\ resolving = Unset /\ folder_ids = EmptyMap
  /\ response = Unset /\ category = <<>> /\ target = None /\ previous_parents = {}
  /\ resolutions = <<>>
  /\ call = NoCall
  /\ left = <<>>

InitRename ==
  /\ workflow = "rename"
  /\ \E n \in {0, NumDocs} : name \in [1..n -> RenameTitles]
  /\ trashed = [d \in DOMAIN name |-> FALSE]
  /\ parents = [d \in DOMAIN name |-> {"root"}]
  /\ folders = <<>>
  /\ categories = CATEGORIES

InitSort ==
  /\ workflow = "sort"
  /\ \E n \in {0, NumDocs} :
       \E prof \in [1..n -> SortProfiles] :
         /\ name = [d \in 1..n |-> prof[d].name]
         /\ parents = [d \in 1..n |-> prof[d].parents]
  /\ trashed = [d \in DOMAIN name |-> FALSE]
  /\ folders \in FolderInits
  /\ categories \in Configs

InitStore ==
  /\ InitCommon
  /\ InitRename \/ InitSort
  /\ log = [d \in DOMAIN name |-> [LogInit EXCEPT !.parents0 = parents[d]]]
  /\ seen = [d \in DOMAIN name |-> Unseen]

Init == InitStore /\ run = 0

Next ==
  \/ ListPage
  \/ RenameSkip \/ RenameFetch \/ RenameUpdate \/ RenameTrash
  \/ ResolveLookup \/ OtherLookup \/ FolderCreate
  \/ SortClassify \/ SortChoose \/ MoveGet \/ MoveUpdate

Spec == Init /\ [][Next]_vars

\* main runs to its end: every step that is enabled is eventually taken
FairSpec == Spec /\ WF_vars(Next)

-----------------------------------------------------------------------------
(* The script run twice *)

\* the script is run again on the store as the complete first run left it;
\* main starts from its first line
Rerun ==
  /\ run = 1 /\ pc = "done"
  /\ run' = 2
  /\ left' = [name |-> name, trashed |-> trashed, parents |-> parents]
  /\ pc' = "list" /\ docs' = <<>> /\ page_token' = None /\ idx' = 1
  /\ folder_ids' = EmptyMap /\ resolutions' = <<>> /\ todo' = <<>>
  /\ log' = [d \in DOMAIN name |-> [LogInit EXCEPT !.parents0 = parents[d]]]
  /\ UNCHANGED <<seen, call, workflow, name, trashed, parents, folders, content, first_line,
                 validated_title, categories, resolving, response, category, target,
                 previous_parents>>

RerunInit == InitStore /\ run = 1

RerunNext == Next \/ Rerun

RerunSpec == RerunInit /\ [][RerunNext]_vars

-----------------------------------------------------------------------------
(* validate_title called on its own *)

MaxTitleLen == 3   \* length of the enumerated titles

TitleAlphabet == {"a", "/", "?"}
X_AllProhibited == <<"a","\\","b","/","*","?",":","\"","<",">","|","c">>

\* every title over the alphabet up to MaxTitleLen, and longer samples
TitleInputs ==
  UNION {[1..n -> TitleAlphabet] : n \in 0..MaxTitleLen}
    \cup {X_AllProhibited, X_OnlyProhibited, X_Mixed, X_MeetingLine, X_Long}

\* max_length arguments: shorter than some titles, and the default
MaxLengths == {2, max_length}

\* validate_title applied to a value validate_title returned: False is falsy
Revalidate(v, maxlen) ==
  IF v.kind = "False" THEN [kind |-> "False", val |-> <<>>]
  ELSE validate_title(v.val, maxlen)

ValidateTitle ==
  /\ workflow = "validate" /\ pc = "call"
  /\ call' = [call EXCEPT !.result = validate_title(call.title, call.max_length)]
  /\ pc' = "validated"
  /\ UNCHANGED <<page_token, run, left, seen, workflow, name, trashed, parents, folders, docs, idx,
                 content, first_line, validated_title, categories, todo, resolving,
                 folder_ids, response, category, target, previous_parents, log, resolutions>>

ValidateAgain ==
  /\ workflow = "validate" /\ pc = "validated"
  /\ call' = [call EXCEPT !.again = Revalidate(call.result, call.max_length)]
  /\ pc' = "revalidated"
  /\ UNCHANGED <<page_token, run, left, seen, workflow, name, trashed, parents, folders, docs, idx,
                 content, first_line, validated_title, categories, todo, resolving,
                 folder_ids, response, category, target, previous_parents, log, resolutions>>

TitleInit ==
  /\ workflow = "validate" /\ pc = "call"
  /\ name = <<>> /\ trashed = <<>> /\ parents = <<>> /\ folders = <<>> /\ log = <<>>
  /\ docs = <<>> /\ page_token = None /\ idx = 1
  /\ content = NoContent /\ first_line = Unset /\ validated_title = Unset
  /\ categories = CATEGORIES /\ todo = <<>> /\ resolving = Unset /\ folder_ids = EmptyMap
  /\ response = Unset /\ category = <<>> /\ target = None /\ previous_parents = {}
  /\ resolutions = <<>>
  /\ run = 0 /\ left = <<>> /\ seen = <<>>
  /\ \E t \in TitleInputs, m \in MaxLengths :
       call = [title |-> t, max_length |-> m, result |-> Unset, again |-> Unset]

TitleNext == ValidateTitle \/ ValidateAgain

TitleSpec == TitleInit /\ [][TitleNext]_vars

-----------------------------------------------------------------------------
(* is_untitled called on its own *)

T_lower == <<"u","n","t","i","t","l","e","d">>
T_UPPERDOCUMENT == T_UPPER \o <<" ","D","O","C","U","M","E","N","T">>
T_lowerdocument == T_lower \o <<" ","d","o","c","u","m","e","n","t">>
T_DotlessI == <<"U","n","t",DotlessI,"t","l","e","d">>
T_DottedI == <<"U","n","t",DottedI,"t","l","e","d">>
T_Untitle == <<"U","n","t","i","t","l","e">>
T_TwoSpaces == T_Untitled \o <<" "," ","d","o","c","u","m","e","n","t">>

\* the two placeholder names in several casings, and names one character off
UntitledCores ==
  {T_Untitled, T_UPPER, T_lower, T_UntitledDocument, T_UPPERDOCUMENT, T_lowerdocument,
   T_DotlessI, T_DottedI, T_Untitle, T_TwoSpaces}

\* what a title may carry before and after such a name
UntitledPrefixes == {<<>>, <<" ">>, <<"\n">>, <<"M","y"," ">>}
UntitledSuffixes ==
  {<<>>, <<"\n">>, <<"\n","\n">>, <<"\r","\n">>, <<" ">>,
   <<" ","N","o","t","e","s">>, <<" ","D","r","a","f","t">>}

UntitledInputs ==
  {p \o c \o x : p \in UntitledPrefixes, c \in UntitledCores, x \in UntitledSuffixes}
    \cup {<<>>, <<"\n">>, T_BudgetDraft}

IsUntitled ==
  /\ workflow = "untitled" /\ pc = "call"
  /\ call' = [call EXCEPT !.result = [kind |-> "bool", val |-> is_untitled(call.title)]]
  /\ pc' = "answered"
  /\ UNCHANGED <<page_token, run, left, seen, workflow, name, trashed, parents, folders, docs, idx,
                 content, first_line, validated_title, categories, todo, resolving,
                 folder_ids, response, category, target, previous_parents, log, resolutions>>

UntitledInit ==
  /\ workflow = "untitled" /\ pc = "call"
  /\ name = <<>> /\ trashed = <<>> /\ parents = <<>> /\ folders = <<>> /\ log = <<>>
  /\ docs = <<>> /\ page_token = None /\ idx = 1
  /\ content = NoContent /\ first_line = Unset /\ validated_title = Unset
  /\ categories = CATEGORIES /\ todo = <<>> /\ resolving = Unset /\ folder_ids = EmptyMap
  /\ response = Unset /\ category = <<>> /\ target = None /\ previous_parents = {}
  /\ resolutions = <<>>
  /\ run = 0 /\ left = <<>> /\ seen = <<>>
  /\ \E t \in UntitledInputs : call = [NoCall EXCEPT !.title = t]

UntitledNext == IsUntitled

UntitledSpec == UntitledInit /\ [][UntitledNext]_vars

-----------------------------------------------------------------------------
(* Properties *)

\* the documents of the listing whose handling is over
Handled(i) == i \in 1..Len(docs) /\ pc # "list" /\ idx > i
LogOf(i) == log[docs[i].id]
MutationCalls(l) == l.rename + l.trash + l.update
TerminalActions == {"skipped", "nofolder", "rename", "trash", "move"}
\* the trashed flag of a document before the run
TrashedBefore(d) == run = 2 /\ left.trashed[d]

\* C1: in both workflows every handled document of the listing has exactly one
\* terminal outcome - explicitly skipped, or one terminal action (rename, trash,
\* categorize-and-move) - and no document ever receives more than one mutation
\* call (rename, trash or reparent), whatever calls succeed or fail; a skipped
\* document receives none, and a document is changed at most once.
C1_OneTerminalAction ==
  /\ \A d \in DOMAIN log :
       /\ MutationCalls(log[d]) <= 1
       /\ log[d].applied <= MutationCalls(log[d])
       /\ Len(log[d].terminal) <= 1
       /\ log[d].applied = 0 =>
            trashed[d] = TrashedBefore(d) /\ parents[d] = log[d].parents0
  /\ \A i \in 1..Len(docs) :
       LogOf(i).applied = 0 => name[docs[i].id] = docs[i].name
  /\ \A i \in 1..Len(docs) :
       Handled(i) =>
         LET l == LogOf(i)
         IN  /\ Len(l.terminal) = 1
             /\ l.terminal[1] \in TerminalActions
             /\ l.terminal[1] \in {"skipped", "nofolder"} => MutationCalls(l) = 0
             /\ l.terminal[1] = "rename" => l.rename = 1
             /\ l.terminal[1] = "trash" => l.trash = 1
             /\ l.terminal[1] = "move" => l.rename = 0 /\ l.trash = 0

\* a finished run in which one document's action was applied and another
\* document's single mutation call failed
C1_Witness ==
  /\ pc = "done" /\ Len(docs) = NumDocs
  /\ \E i, j \in 1..Len(docs) :
       /\ LogOf(i).applied = 1
       /\ MutationCalls(LogOf(j)) = 1 /\ LogOf(j).applied = 0
       /\ Len(LogOf(j).terminal) = 1

\* the placeholder titles as the title policy states them: the whole title is,
\* case-insensitively, "Untitled" or "Untitled document"
SpecIsPlaceholder(title) == LowerStr(title) \in {Untitled, UntitledDocument}

\* C2: in the rename-or-trash workflow a document whose listed title is not a
\* placeholder is left untouched: no content fetch, rename or trash call is issued
\* for it and its title and trashed flag stay as they were.
C2_NonPlaceholderUntouched ==
  workflow = "rename" =>
    \A i \in 1..Len(docs) :
      ~SpecIsPlaceholder(docs[i].name) =>
        /\ LogOf(i).fetch = 0 /\ LogOf(i).rename = 0 /\ LogOf(i).trash = 0
        /\ name[docs[i].id] = docs[i].name
        /\ trashed[docs[i].id] = TrashedBefore(docs[i].id)

\* sanitization as the title policy states it
SpecSanitize(candidate) == SelectSeq(Take(candidate, max_length), LAMBDA c : c \notin Prohibited)

\* C3: in the rename-or-trash workflow, for every placeholder-titled document:
\* no candidate (or a failed walk) gives trash; a candidate whose sanitization is
\* non-empty gives a rename to exactly that sanitized string; a candidate whose
\* sanitization is empty gives trash.  "Meeting Notes 2024\nmore text" gives a
\* rename to "Meeting Notes 2024", an empty content tree gives trash.
C3_RenameOrTrash ==
  workflow = "rename" =>
    /\ \A i \in 1..Len(docs) :
         (Handled(i) /\ SpecIsPlaceholder(docs[i].name)) =>
           LET l == LogOf(i)
           IN  /\ l.fetch = 1
               /\ l.got.kind # "line" => l.terminal = <<"trash">>
               /\ (l.got.kind = "line" /\ SpecSanitize(l.got.val) # <<>>) =>
                    l.terminal = <<"rename">> /\ l.arg = SpecSanitize(l.got.val)
               /\ (l.got.kind = "line" /\ SpecSanitize(l.got.val) = <<>>) =>
                    l.terminal = <<"trash">>
               /\ (l.terminal = <<"rename">> /\ l.applied = 1) => name[docs[i].id] = l.arg
               /\ (l.terminal = <<"trash">> /\ l.applied = 1) => trashed[docs[i].id]
    /\ (pc \in {"rename", "trash"} /\ content = DocMeeting) =>
         pc = "rename" /\ validated_title.val = X_MeetingLine
    /\ (pc \in {"rename", "trash"} /\ content = DocEmpty) => pc = "trash"

\* a run that renamed one placeholder document to the sanitized candidate (with
\* prohibited characters removed) and trashed another whose tree is empty
C3_Witness ==
  /\ workflow = "rename" /\ pc = "done" /\ Len(docs) = NumDocs
  /\ \E i, j \in 1..Len(docs) :
       /\ SpecIsPlaceholder(docs[i].name)
       /\ LogOf(i).got = Line(X_Mixed) /\ LogOf(i).terminal = <<"rename">>
       /\ name[docs[i].id] = SpecSanitize(X_Mixed) /\ name[docs[i].id] # X_Mixed
       /\ SpecIsPlaceholder(docs[j].name)
       /\ LogOf(j).got = NoLine /\ trashed[docs[j].id]

\* the walk as the content walker's contract states it: depth-first, document
\* order, a cell's content scanned by the same rule as the body's
RECURSIVE SpecScanNodes(_, _, _)
RECURSIVE SpecScanCells(_, _, _)
RECURSIVE SpecScanRows(_, _, _)
SpecScanNode(node, limit) ==
  IF "paragraph" \in DOMAIN node
  THEN ScanElements(GetOr(node["paragraph"], "elements", <<>>), 1, limit)
  ELSE IF "table" \in DOMAIN node
  THEN SpecScanRows(GetOr(node["table"], "tableRows", <<>>), 1, limit)
  ELSE NoLine
SpecScanNodes(nodes, i, limit) ==
  IF i > Len(nodes) THEN NoLine
  ELSE LET r == SpecScanNode(nodes[i], limit)
       IN  IF r.kind = "line" THEN r ELSE SpecScanNodes(nodes, i + 1, limit)
SpecScanCells(cells, i, limit) ==
  IF i > Len(cells) THEN NoLine
  ELSE LET r == SpecScanNodes(GetOr(cells[i], "content", <<>>), 1, limit)
       IN  IF r.kind = "line" THEN r ELSE SpecScanCells(cells, i + 1, limit)
SpecScanRows(rows, i, limit) ==
  IF i > Len(rows) THEN NoLine
  ELSE LET r == SpecScanCells(GetOr(rows[i], "tableCells", <<>>), 1, limit)
       IN  IF r.kind = "line" THEN r ELSE SpecScanRows(rows, i + 1, limit)
SpecFirstLine(document, limit) ==
  SpecScanNodes(GetOr(GetOr(document, "body", <<>>), "content", <<>>), 1, limit)

\* C4: whenever get_first_line returns a candidate, the candidate is the first
\* line, truncated to char_limit, of the first TextRun with non-whitespace text
\* in depth-first document order, however deeply inside nested tables that
\* TextRun lies.
C4_FirstLineInDocumentOrder ==
  (content # NoContent /\ first_line.kind = "line") =>
    first_line = SpecFirstLine(content, char_limit)

\* C5: a failed remote call on one document never aborts the run: every listed
\* document is eventually handled to its end, whatever failed before it, and the
\* run terminates after the last one.
C5_RunGoesOn ==
  /\ <>(pc = "done")
  /\ \A i \in Docs :
       (pc # "list" /\ i <= Len(docs)) ~>
         (i <= Len(docs) /\ idx > i /\ Len(LogOf(i).terminal) = 1)

\* a finished run whose first document had a failed remote call and whose last
\* document was still handled
C5_Witness ==
  /\ pc = "done" /\ Len(docs) = NumDocs
  /\ \/ MutationCalls(LogOf(1)) = 1 /\ LogOf(1).applied = 0
     \/ LogOf(1).get = 1 /\ LogOf(1).update = 0 /\ LogOf(1).parents0 # {}
     \/ LogOf(1).got = Raised
  /\ Len(LogOf(NumDocs).terminal) = 1
  /\ LogOf(NumDocs).applied = 1

\* C6: a move changes a document's parents with one mutation call that adds the
\* target folder and removes every parent that was read: in every state the
\* parent set is the original one (no move, or a failed one) or exactly the
\* target folder - never old and new parents together, never none - also when
\* the document already is in the target folder.
C6_ParentsOriginalOrTarget ==
  /\ \A d \in DOMAIN parents :
       /\ log[d].update <= 1
       /\ \/ parents[d] = log[d].parents0
          \/ log[d].update = 1 /\ log[d].applied = 1 /\ parents[d] = {log[d].moved_to}
       /\ (log[d].update = 1 /\ log[d].applied = 1) => parents[d] = {log[d].moved_to}
  /\ pc = "update" =>
       /\ previous_parents = parents[Cur.id]
       /\ previous_parents # {}
       /\ log[Cur.id].moved_to = target

\* a document that was in the target folder and in another one, moved: the
\* target folder is now its only parent
C6_Witness ==
  \E d \in DOMAIN parents :
    /\ log[d].parents0 = {"root", "f1"}
    /\ log[d].moved_to = "f1"
    /\ log[d].applied = 1
    /\ parents[d] = {"f1"}

\* the category and the folder as the classifier adapter and the orchestrator
\* state them
SpecCategory(answer, cats) ==
  IF answer.kind = "label" /\ Strip(answer.text) \in CategoryKeys(cats)
  THEN Strip(answer.text) ELSE Other
SpecFolder(ids, cat) ==
  IF cat \in DOMAIN ids THEN ids[cat]
  ELSE IF Other \in DOMAIN ids THEN ids[Other] ELSE None
FolderIdsOf(fs) == {fs[k].id : k \in DOMAIN fs}

\* C7: in the categorize-and-move workflow a document is moved to the folder
\* resolved for its classified category, and to the folder of the fallback
\* category 'Other' when the classifier's label is outside the vocabulary or the
\* category's own folder was not resolved.
C7_MovedToCategoryFolder ==
  workflow = "sort" =>
    /\ pc = "classified" =>
         /\ category = SpecCategory(response, categories)
         /\ (response.kind = "label" /\ Strip(response.text) \notin CategoryKeys(categories))
              => category = Other
    /\ pc \in {"get", "update"} =>
         /\ target = SpecFolder(folder_ids, category)
         /\ target \in FolderIdsOf(folders)
         /\ category \notin DOMAIN folder_ids => target = folder_ids[Other]
    /\ pc = "update" => log[Cur.id].moved_to = target
    /\ \A d \in DOMAIN log :
         log[d].applied = 1 =>
           /\ parents[d] = {log[d].moved_to}
           /\ \E k \in DOMAIN folder_ids : folder_ids[k] = log[d].moved_to

\* "Budget Draft" moved to the fallback's folder although the folder of the
\* category Poetry is resolved to another one: its label was not Poetry
C7_Witness ==
  /\ workflow = "sort" /\ pc = "done"
  /\ Poetry \in DOMAIN folder_ids /\ Other \in DOMAIN folder_ids
  /\ folder_ids[Poetry] # folder_ids[Other]
  /\ \E d \in DOMAIN name :
       /\ name[d] = T_BudgetDraft
       /\ log[d].applied = 1
       /\ parents[d] = {folder_ids[Other]}

\* C8: when neither the document's category nor the fallback category has a
\* folder, the move is skipped: no parents read, no reparent call, the parent
\* set unchanged, and the run goes on with the next document.
C8_NoFolderNoMove ==
  workflow = "sort" =>
    /\ pc \in {"get", "update"} =>
         category \in DOMAIN folder_ids \/ Other \in DOMAIN folder_ids
    /\ (pc = "classified" /\ category \notin DOMAIN folder_ids /\ Other \notin DOMAIN folder_ids)
         => log[Cur.id].get = 0 /\ log[Cur.id].update = 0
    /\ \A i \in 1..Len(docs) :
         Handled(i) =>
           /\ Other \notin DOMAIN folder_ids =>
                \/ LogOf(i).terminal = <<"nofolder">>
                \/ LogOf(i).moved_to \in {folder_ids[k] : k \in DOMAIN folder_ids}
           /\ DOMAIN folder_ids = {} => LogOf(i).terminal = <<"nofolder">>
           /\ LogOf(i).terminal = <<"nofolder">> =>
                /\ LogOf(i).get = 0 /\ LogOf(i).update = 0
                /\ parents[docs[i].id] = LogOf(i).parents0
                /\ pc \in {"loop", "classified", "get", "update", "done"}

\* a finished run without any resolved folder: every document of the listing
\* was classified, none was read or moved
C8_Witness ==
  /\ workflow = "sort" /\ pc = "done" /\ Len(docs) = NumDocs
  /\ DOMAIN folder_ids = {}
  /\ \A i \in 1..Len(docs) :
       LogOf(i).terminal = <<"nofolder">> /\ LogOf(i).classify = 1 /\ LogOf(i).get = 0

\* C9: categorize_document returns a key of CATEGORIES or 'Other' and never
\* raises, for every title (the empty one too) and every outcome of the external
\* call: a label in or out of the vocabulary, a malformed response, a failure.
C9_CategoryInVocabulary ==
  (workflow = "sort" /\ pc \in {"classified", "get", "update"}) =>
    /\ category \in CategoryKeys(categories) \cup {Other}
    /\ pc = "classified" =>
         /\ response \in ClassifierOutcomes
         /\ response.kind # "label" => category = Other

\* the empty title after a failed call, classified as 'Other'
C9_Witness ==
  /\ workflow = "sort" /\ pc = "classified"
  /\ Cur.name = <<>>
  /\ response.kind = "error"
  /\ category = Other

\* C10: within one run, a name resolved twice gives the same FolderId and no
\* second creation call; the run creates at most one folder of a name, also when
\* 'Other' is a configured category or two categories share a folder name.
C10_ResolvedOnce ==
  /\ \A i, j \in DOMAIN resolutions :
       (i < j /\ resolutions[i].name = resolutions[j].name /\ resolutions[i].id # None) =>
         /\ ~resolutions[j].create
         /\ resolutions[j].id # None => resolutions[j].id = resolutions[i].id
  /\ \A i, j \in DOMAIN resolutions :
       (resolutions[i].create /\ resolutions[j].create
          /\ resolutions[i].id # None /\ resolutions[j].id # None
          /\ resolutions[i].name = resolutions[j].name) => i = j
  /\ \A a, b \in DOMAIN folders :
       (folders[a].name = folders[b].name
          /\ {folders[a].id, folders[b].id} \subseteq {NewIds[k] : k \in DOMAIN NewIds}) => a = b

\* a name resolved twice in one run: created the first time, found the second
C10_Witness ==
  \E i, j \in DOMAIN resolutions :
    /\ i < j
    /\ resolutions[i].name = resolutions[j].name
    /\ resolutions[i].create /\ resolutions[i].id # None
    /\ resolutions[j].id = resolutions[i].id

\* the walk of get_first_line with every absent optional field read as an empty
\* container, as the content walker's contract asks
TolerantElement(element, limit) ==
  IF "paragraph" \in DOMAIN element
  THEN ScanElements(GetOr(element["paragraph"], "elements", <<>>), 1, limit)
  ELSE IF "table" \in DOMAIN element
  THEN ScanRows(GetOr(element["table"], "tableRows", <<>>), 1, limit)
  ELSE NoLine
RECURSIVE TolerantContent(_, _, _)
TolerantContent(body_content, i, limit) ==
  IF i > Len(body_content) THEN NoLine
  ELSE LET r == TolerantElement(body_content[i], limit)
       IN  IF r.kind = "line" THEN r ELSE TolerantContent(body_content, i + 1, limit)
TolerantFirstLine(document, limit) ==
  TolerantContent(GetOr(GetOr(document, "body", <<>>), "content", <<>>), 1, limit)

\* C11: get_first_line reads an absent optional field (body/content, a
\* paragraph's elements, a table's rows, a row's cells, a cell's content) as an
\* empty container: the walk goes on with the next sibling, and a later element
\* with a non-whitespace TextRun still gives its first line.
C11_MissingFieldsTolerated ==
  (content # NoContent /\ TolerantFirstLine(content, char_limit).kind = "line") =>
    first_line = TolerantFirstLine(content, char_limit)

\* C12: a failed remote call leads the document to its workflow's failure
\* terminal: in the rename-or-trash workflow a placeholder document whose content
\* fetch or rename call failed ends with the trash action; in the
\* categorize-and-move workflow a document whose remote call failed ends
\* unmodified.
C12_FailureTerminal ==
  \A i \in 1..Len(docs) :
    Handled(i) =>
      LET l == LogOf(i)
      IN  /\ (workflow = "rename" /\ l.got.kind = "raised") =>
               l.terminal = <<"trash">> /\ l.trash = 1
          /\ (workflow = "rename" /\ l.rename = 1 /\ l.applied = 0) =>
               l.trash = 1 /\ "trash" \in {l.terminal[k] : k \in DOMAIN l.terminal}
          /\ (workflow = "sort" /\ l.get + l.update > 0 /\ l.applied = 0) =>
               parents[docs[i].id] = l.parents0 /\ name[docs[i].id] = docs[i].name

\* C13: each workflow is idempotent over the remote store: run a second time on
\* the store a complete, failure-free first run left, with the documents'
\* contents and the classifier's answers unchanged, it leaves every document's
\* title, trashed flag and parent set as the first run left them.
C13_Idempotent ==
  run = 2 =>
    /\ name = left.name
    /\ trashed = left.trashed
    /\ parents = left.parents

\* a finished re-run that issued a mutation call again for every document - a
\* rename to the title the document has, a trash of a trashed document, or a
\* move into the folder it is in
C13_Witness ==
  /\ run = 2 /\ pc = "done" /\ Len(docs) = NumDocs
  /\ \A i \in 1..Len(docs) : LogOf(i).applied = 1
  /\ \E i \in 1..Len(docs) : trashed[docs[i].id] \/ LogOf(i).moved_to # None

RemoteCalls == {"fetch", "rename", "trash", "classify", "get", "update"}

\* C14: no remote call is retried: within a run each remote call of a document's
\* handling (content fetch, rename, trash, classification, parents read,
\* reparent) is attempted at most once, also after it or an earlier call failed.
C14_NoRetry ==
  /\ \A d \in DOMAIN log : \A c \in RemoteCalls : log[d][c] <= 1
  /\ \A i \in 1..Len(docs) :
       Handled(i) =>
         /\ LogOf(i).got.kind = "raised" => LogOf(i).fetch = 1 /\ LogOf(i).rename = 0
         /\ (LogOf(i).get = 1 /\ LogOf(i).update = 0) => LogOf(i).applied = 0

\* a finished run with a document whose parents read failed and was not issued
\* again, and a document whose single reparent call failed
C14_Witness ==
  /\ workflow = "sort" /\ pc = "done" /\ Len(docs) = NumDocs
  /\ \E i, j \in 1..Len(docs) :
       /\ LogOf(i).parents0 # {} /\ LogOf(i).get = 1 /\ LogOf(i).update = 0
       /\ LogOf(j).update = 1 /\ LogOf(j).applied = 0

\* C15: in both workflows there is exactly one pause after each document of the
\* listing, whether its handling succeeded, failed or was skipped.
C15_PauseAfterEveryDocument ==
  \A i \in 1..Len(docs) : Handled(i) => LogOf(i).pauses = 1

\* white space as the content walker's contract means it: the characters with
\* the Unicode White_Space property
SpecWhitespace ==
  {" ", "\t", "\n", "\r", "\f", "U+000B", "U+0085", "U+00A0", "U+1680", "U+2000",
   "U+2001", "U+2002", "U+2003", "U+2004", "U+2005", "U+2006", "U+2007", "U+2008",
   "U+2009", "U+200A", "U+2028", "U+2029", "U+202F", "U+205F", "U+3000"}

\* a TextRun with a non-whitespace character anywhere in the tree, at any depth
SpecRunHasInk(elem) ==
  /\ "textRun" \in DOMAIN elem
  /\ "content" \in DOMAIN elem["textRun"]
  /\ \E k \in DOMAIN elem["textRun"]["content"] :
       elem["textRun"]["content"][k] \notin SpecWhitespace
RECURSIVE SpecNodesHaveInk(_)
SpecNodeHasInk(node) ==
  \/ /\ "paragraph" \in DOMAIN node
     /\ \E k \in DOMAIN GetOr(node["paragraph"], "elements", <<>>) :
          SpecRunHasInk(node["paragraph"]["elements"][k])
  \/ /\ "table" \in DOMAIN node
     /\ \E r \in DOMAIN GetOr(node["table"], "tableRows", <<>>) :
          \E c \in DOMAIN GetOr(node["table"]["tableRows"][r], "tableCells", <<>>) :
            SpecNodesHaveInk(
              GetOr(node["table"]["tableRows"][r]["tableCells"][c], "content", <<>>))
SpecNodesHaveInk(nodes) == \E k \in DOMAIN nodes : SpecNodeHasInk(nodes[k])
SpecHasInk(document) ==
  SpecNodesHaveInk(GetOr(GetOr(document, "body", <<>>), "content", <<>>))

\* C16: for a content tree in which no TextRun holds a non-whitespace character
\* (the empty tree, section breaks, unknown elements, empty tables, blank runs)
\* get_first_line returns None.
C16_NoTextNoCandidate ==
  (content # NoContent /\ ~SpecHasInk(content)) => first_line.kind # "line"

\* a tree of a section break, a blank paragraph, an unknown element and an
\* empty table, walked to its end
C16_Witness ==
  /\ content = DocBlankOnly
  /\ first_line = NoLine
  /\ pc = "trash"

\* C17: list_google_docs follows the nextPageToken page after page until a page
\* carries none and returns the records of all pages in store order; a listing
\* without results ends the run without any mutation.
C17_AllPagesInOrder ==
  /\ pc = "list" =>
       /\ Len(docs) <= Cardinality(StoreDocs)
       /\ \A i \in 1..Len(docs) : docs[i] = [id |-> i, name |-> name[i]]
  /\ pc # "list" =>
       \/ docs = <<>>
       \/ /\ Len(docs) = Cardinality(StoreDocs)
          /\ \A i \in 1..Len(docs) : docs[i].id = i
          /\ \A i \in 1..Len(docs) : LogOf(i).applied = 0 => docs[i].name = name[i]
  /\ (pc # "list" /\ docs = <<>>) =>
       /\ pc = "done"
       /\ \A d \in DOMAIN log : MutationCalls(log[d]) = 0 /\ log[d].fetch = 0
       /\ resolutions = <<>>

\* a first page was returned with a nextPageToken: the listing goes on
C17_Witness ==
  /\ pc = "list"
  /\ Len(docs) >= 1 /\ Len(docs) < Cardinality(StoreDocs)

\* C18: in the categorize-and-move workflow every listed document is classified
\* exactly once, whatever its title; is_meaningful gates neither the
\* classification nor the move.
C18_ClassifiedOnce ==
  workflow = "sort" =>
    /\ \A d \in DOMAIN log : log[d].classify <= 1
    /\ \A i \in 1..Len(docs) : Handled(i) => LogOf(i).classify = 1
    /\ pc \in {"classified", "get", "update"} => log[Cur.id].classify = 1
    /\ \A i \in 1..Len(docs) :
         (Handled(i) /\ LogOf(i).classify = 1 /\ LogOf(i).terminal = <<"nofolder">>) =>
           Other \notin DOMAIN folder_ids

\* a placeholder title, not meaningful, classified once and moved
C18_Witness ==
  /\ workflow = "sort" /\ pc = "done"
  /\ \E i \in 1..Len(docs) :
       /\ docs[i].name = T_Untitled /\ ~is_meaningful(docs[i].name)
       /\ LogOf(i).classify = 1
       /\ LogOf(i).applied = 1 /\ LogOf(i).parents0 # {LogOf(i).moved_to}

\* the filename-illegal characters as the title policy lists them
SpecProhibited == {"\\", "/", "*", "?", ":", "\"", "<", ">", "|"}

\* C19: validate_title removes every occurrence of each of \ / * ? : " < > |
\* from its input, after truncation to max_length, and keeps the other
\* characters in order; a non-empty input of only those characters gives an
\* empty result, which main treats as no title.
C19_ProhibitedRemoved ==
  (workflow = "validate" /\ pc \in {"validated", "revalidated"}) =>
    LET cut == Take(call.title, call.max_length)
        kept == SelectSeq(cut, LAMBDA c : c \notin SpecProhibited)
    IN  IF call.title = <<>> THEN call.result.kind = "False"
        ELSE /\ call.result.kind = "str"
             /\ \A k \in DOMAIN call.result.val : call.result.val[k] \notin SpecProhibited
             /\ call.result.val = kept
             /\ (\A k \in DOMAIN cut : cut[k] \in SpecProhibited) =>
                  call.result.val = <<>> /\ ~TruthyTitle(call.result)

\* every prohibited character, met between letters, is removed
C19_Witness ==
  /\ workflow = "validate" /\ pc = "validated"
  /\ call.title = X_AllProhibited /\ call.max_length = max_length
  /\ call.result = [kind |-> "str", val |-> <<"a", "b", "c">>]

\* C20: validate_title is idempotent: applied to its own result, with the same
\* max_length, it yields that result again, also for inputs longer than
\* max_length and inputs whose sanitized result is empty.
C20_Idempotent ==
  (workflow = "validate" /\ pc = "revalidated") => call.again = call.result

\* C21: is_untitled(title) is true if and only if the whole title equals,
\* case-insensitively, "Untitled" or "Untitled document", with no character
\* before or after: true for "Untitled", "untitled document" and "UNTITLED",
\* false for "Untitled Notes" and "My Untitled Draft".
C21_ExactMatch ==
  (workflow = "untitled" /\ pc = "answered") =>
    (call.result.val <=> SpecIsPlaceholder(call.title))

\* the listing ended by a failed call: list_google_docs returned while a
\* nextPageToken was pending, or returned nothing from a store that has documents
ListingFailed ==
  pc # "list" /\ (page_token # None \/ (docs = <<>> /\ StoreDocs # {}))

\* C22: listing is all-or-nothing: when the listing call fails, on the first page
\* or a later one, list_google_docs discards the pages fetched and returns the
\* empty list, and the run ends with no content fetch, rename, trash,
\* classification, parents read or move of any document and, in the
\* categorize-and-move workflow, no folder lookup or creation.
C22_ListingAllOrNothing ==
  ListingFailed =>
    /\ docs = <<>> /\ pc = "done"
    /\ \A d \in DOMAIN log :
         /\ log[d].fetch = 0 /\ log[d].classify = 0 /\ log[d].get = 0
         /\ MutationCalls(log[d]) = 0 /\ log[d].terminal = <<>>
         /\ trashed[d] = TrashedBefore(d) /\ parents[d] = log[d].parents0
    /\ resolutions = <<>> /\ resolving = Unset /\ folder_ids = EmptyMap
    /\ \A i \in DOMAIN folders : \A j \in DOMAIN NewIds : folders[i].id # NewIds[j]

\* the categorize-and-move workflow, no folder in the store: the first page came
\* with a nextPageToken, the call for the second page failed, and the run is over
C22_Witness ==
  /\ workflow = "sort" /\ folders = <<>>
  /\ pc = "done" /\ docs = <<>>
  /\ page_token = PageTokens[1]
  /\ Cardinality(StoreDocs) = NumDocs

=============================================================================
